---- MODULE Spec2Model ----
(***************************************************************************)
(* Katzenpost client: the delay queue (TimerQ, src/constants/constants.go), *)
(* the send pipeline (src/session/send.go) and the receive callbacks       *)
(* onMessage / onACK (src/proxy/fetch.go).                                 *)
(*                                                                         *)
(* Time is a discrete clock `now`; a *Message is the index of its record   *)
(* in `msgs`; a SURB identifier is a number handed out in order.           *)
(***************************************************************************)
EXTENDS Integers, Sequences, FiniteSets, TLC

\* ------------------------------------------------------------------ bounds
NMsgs == 2
MaxTime == 6
AckMaxTime == 3
MaxAcks == 1
MaxDupAcks == 2
MaxDecoys == 1
NAckCallers == 2
MaxKeys == 3
MaxDeliveries == 5
\* the round trip estimates SendCiphertext may return
ETAs == {1, 3}

\* ---------------------------------------------------------------- constants
maxTransmissions == 3

Msgs == 1..NMsgs
\* the Message objects sendLoopDecoy creates
Decoys == (NMsgs + 1)..(NMsgs + MaxDecoys)
AllMsgs == Msgs \cup Decoys
SurbIDs == 1..(NMsgs * maxTransmissions)

VARIABLES
    now,            \* time.Now()
    msgs,           \* the Message records (SentAt, ReplyETA, Transmissions, Reliable)
    messageIDMap,   \* Session.messageIDMap: the message IDs registered
    replyNotifyMap, \* Session.replyNotifyMap: ID -> state of its reply lock
    waiting,        \* IDs with a caller inside WaitForReply, blocked on the lock
    unlocked,       \* history: IDs whose reply lock was unlocked
    failedIDs,      \* history: IDs SendMessage returned an error for (0: none drawn)
    egressQueue,    \* Session.egressQueue (the TimerQ's nextQ)
    priq,           \* TimerQ.priq: entries [pri, m], lowest priority first
    wpc,            \* TimerQ.worker: "top" | "fwd" | "select" | "done"
    timer,          \* the worker's c (time.After): [armed, at]
    relay,          \* wakeupCh goroutine: "none" | "loop" | "wait" | "send" | "done"
    halted,         \* HaltCh is closed
    nextSurb,       \* the next fresh SURB identifier
    surbIDMap,      \* Session.surbIDMap (send.go): surbID -> message
    surbKeyMap,     \* Session.surbKeyMap (fetch.go): surbIDs with keys
    storageKeys,    \* Storage's SURB key records
    panicked,       \* a goroutine panicked: the process is gone
    lastFwdPri,     \* history: the priority of the entry forwarded last
    removed,        \* history: messages Remove returned for while queued, not pushed since
    abandoned,      \* history: messages doSend gave up on
    nsent,          \* history: successful SendCiphertext calls per message
    lastErr,        \* history: the last sendNext call returned SendCiphertext's error
    sendpc,         \* sendNext taken step by step: [pc, m, eta, surb]
    acked,          \* history: messages a valid ACK was processed for
    nacks,          \* history: the ACKs delivered so far
    consumed,       \* history: per surbID, the onACK calls that found and deleted it
    ackpc,          \* concurrent onACK calls: [pc, surbid] per caller
    ingress,        \* Storage's ingress blocks: message ID -> raw blocks
    received,       \* the consumer's ReceivedMessage notifications, in order
    ndeliv          \* history: the onMessage calls so far

vars == <<now, msgs, messageIDMap, replyNotifyMap, waiting, unlocked, failedIDs,
          egressQueue, priq,
          wpc, timer, relay, halted, nextSurb, surbIDMap, surbKeyMap,
          storageKeys, panicked, lastFwdPri, removed, abandoned, nsent, lastErr, sendpc,
          acked, nacks, consumed, ackpc, ingress, received, ndeliv>>

tqVars == <<priq, wpc, timer, relay, halted>>
sendVars == <<nextSurb, surbIDMap, nsent, abandoned, lastErr, sendpc>>
ackVars == <<surbKeyMap, storageKeys, acked, nacks, consumed>>
rxVars == <<ackpc, ingress, received, ndeliv>>
mapVars == <<messageIDMap, replyNotifyMap, waiting, unlocked, failedIDs>>

\* ------------------------------------------------------------------ Message
NoMsg == [SentAt |-> 0, ReplyETA |-> 0, Transmissions |-> 0, Reliable |-> FALSE]

\* Message.expiry: the priority a message is enqueued under
expiry(r) == r.SentAt + (r.ReplyETA \div 2) + (r.Transmissions + 1) * r.ReplyETA

\* Message.timeLeft at time t
timeLeft(r, t) == (r.SentAt + r.ReplyETA) - t

\* ---------------------------------------------------------- PriorityQueue
InsertAt(q, i, e) == SubSeq(q, 1, i - 1) \o <<e>> \o SubSeq(q, i, Len(q))

\* queue.Enqueue keeps the entries ordered by priority; the place of an entry
\* among entries of equal priority is the heap's choice.
Enqueued(q, e) ==
    { InsertAt(q, i, e) :
        i \in { j \in 1..(Len(q) + 1) :
                  /\ \A k \in 1..(j - 1) : q[k].pri <= e.pri
                  /\ \A k \in j..Len(q) : q[k].pri >= e.pri } }

InPriq(m) == \E k \in 1..Len(priq) : priq[k].m = m

\* sync.Cond.Signal: wakes the relay goroutine if it is inside Cond.Wait,
\* and is lost otherwise.
Signal(r) == IF r = "wait" THEN "send" ELSE r

\* ------------------------------------------------------------------ TimerQ
\* TimerQ.Push(m): Enqueue(m.expiry(), m) under the lock, then Signal.
TQPush(m, r) ==
    /\ \E q \in Enqueued(priq, [pri |-> expiry(r), m |-> m]) : priq' = q
    /\ relay' = Signal(relay)
    /\ removed' = removed \ {m}

\* What TimerQ.Remove(m) leaves in the queue when the queue is not empty:
\* only a head equal to m is popped; any other entry stays.
RemoveResult(q, m) == IF Head(q).m = m THEN Tail(q) ELSE q

\* TimerQ.Remove(m).  On an empty queue Peek is nil, priq.Remove returns nil
\* and the case expression m == mo.(*Message) panics.
TQRemove(m) ==
    IF priq = <<>>
    THEN /\ panicked' = TRUE
         /\ UNCHANGED <<priq, relay, removed>>
    ELSE /\ priq' = RemoveResult(priq, m)
         /\ relay' = IF Head(priq).m = m /\ Len(priq) > 1
                     THEN Signal(relay) ELSE relay
         /\ removed' = IF InPriq(m) THEN removed \cup {m} ELSE removed
         /\ UNCHANGED panicked

\* TimerQ.forward that peeks where it should pop
TQForward_Peek ==
    IF priq = <<>>
    THEN UNCHANGED <<priq, egressQueue, lastFwdPri>>
    ELSE /\ priq' = priq
         /\ egressQueue' = Append(egressQueue, Head(priq).m)
         /\ lastFwdPri' = Head(priq).pri

\* TimerQ.forward: pop the head and push it to nextQ.
TQForward ==
    IF priq = <<>>
    THEN UNCHANGED <<priq, egressQueue, lastFwdPri>>
    ELSE /\ priq' = Tail(priq)
         /\ egressQueue' = Append(egressQueue, Head(priq).m)
         /\ lastFwdPri' = Head(priq).pri

\* TimerQ.worker, top of the loop: peek under the lock.
WorkerTop ==
    /\ ~panicked
    /\ wpc = "top"
    /\ IF priq # <<>> /\ timeLeft(msgs[Head(priq).m], now) < 0
       THEN /\ wpc' = "fwd"
            /\ UNCHANGED <<timer, relay>>
       ELSE /\ wpc' = "select"
            /\ timer' = IF priq # <<>>
                        THEN [armed |-> TRUE,
                              at |-> now + timeLeft(msgs[Head(priq).m], now)]
                        ELSE [armed |-> FALSE, at |-> 0]
            \* wakeupCh() starts the relay goroutine on its first use
            /\ relay' = IF relay = "none" THEN "loop" ELSE relay
    /\ UNCHANGED <<rxVars, now, msgs, mapVars, egressQueue, priq, sendVars, ackVars,
                   panicked, lastFwdPri, removed, halted>>

\* the worker's forward() after tl < 0, then continue
WorkerForward ==
    /\ ~panicked
    /\ wpc = "fwd"
    /\ TQForward
    /\ wpc' = "top"
    /\ UNCHANGED <<rxVars, now, msgs, mapVars, timer, relay, sendVars, ackVars,
                   panicked, removed, halted>>

\* select: case <-c: forward()
WorkerTimer ==
    /\ ~panicked
    /\ wpc = "select"
    /\ timer.armed /\ now >= timer.at
    /\ TQForward
    /\ wpc' = "top"
    /\ timer' = [armed |-> FALSE, at |-> 0]
    /\ UNCHANGED <<rxVars, now, msgs, mapVars, relay, sendVars, ackVars,
                   panicked, removed, halted>>

\* select: case <-a.wakeupCh(): the relay's send is received, or the channel
\* was closed by the relay's return
WorkerWake ==
    /\ ~panicked
    /\ wpc = "select"
    /\ relay \in {"send", "done"}
    /\ relay' = IF relay = "send" THEN "loop" ELSE relay
    /\ wpc' = "top"
    /\ timer' = [armed |-> FALSE, at |-> 0]
    /\ UNCHANGED <<rxVars, now, msgs, mapVars, egressQueue, priq, sendVars, ackVars,
                   panicked, lastFwdPri, removed, halted>>

\* TimerQ.forward when nextQ.Push returns an error: the entry is popped
\* already and forward panics with the error.
TQForwardErr ==
    /\ priq # <<>>
    /\ priq' = Tail(priq)
    /\ panicked' = TRUE
    /\ UNCHANGED <<egressQueue, lastFwdPri>>

\* the worker's forward() after tl < 0, with nextQ.Push failing
WorkerForwardErr ==
    /\ ~panicked
    /\ wpc = "fwd"
    /\ TQForwardErr
    /\ UNCHANGED <<rxVars, now, msgs, mapVars, wpc, timer, relay, sendVars,
                   ackVars, removed, halted>>

\* select: case <-c: forward(), with nextQ.Push failing
WorkerTimerErr ==
    /\ ~panicked
    /\ wpc = "select"
    /\ timer.armed /\ now >= timer.at
    /\ TQForwardErr
    /\ UNCHANGED <<rxVars, now, msgs, mapVars, wpc, timer, relay, sendVars,
                   ackVars, removed, halted>>

\* the relay goroutine reaches Cond.Wait
RelayWait ==
    /\ ~panicked
    /\ relay = "loop"
    /\ relay' = "wait"
    /\ UNCHANGED <<rxVars, now, msgs, mapVars, egressQueue, priq, wpc, timer, halted, sendVars,
                   ackVars, panicked, lastFwdPri, removed>>

\* Halt() of the embedded worker.Worker closes HaltCh
Halt ==
    /\ ~panicked
    /\ ~halted
    /\ halted' = TRUE
    /\ UNCHANGED <<rxVars, now, msgs, mapVars, egressQueue, priq, wpc, timer, relay,
                   sendVars, ackVars, panicked, lastFwdPri, removed>>

\* the worker's select can take case <-a.HaltCh()
HaltObserved_Never(pc, h) == FALSE

HaltObserved(pc, h) == pc = "select" /\ h

\* select: case <-a.HaltCh(): return
WorkerHalt ==
    /\ ~panicked
    /\ HaltObserved(wpc, halted)
    /\ wpc' = "done"
    /\ timer' = [armed |-> FALSE, at |-> 0]
    /\ UNCHANGED <<rxVars, now, msgs, mapVars, egressQueue, priq, relay, sendVars,
                   ackVars, panicked, lastFwdPri, removed, halted>>

\* the relay goroutine, woken from Cond.Wait, takes case <-a.HaltCh(): return
RelayHalt ==
    /\ ~panicked
    /\ relay = "send"
    /\ halted
    /\ relay' = "done"
    /\ UNCHANGED <<rxVars, now, msgs, mapVars, egressQueue, priq, wpc, timer, sendVars,
                   ackVars, panicked, lastFwdPri, removed, halted>>

\* ------------------------------------------------------------------- clock
Tick(limit) ==
    /\ ~panicked
    /\ now < limit
    /\ now' = now + 1
    /\ UNCHANGED <<rxVars, msgs, mapVars, egressQueue, tqVars, sendVars, ackVars,
                   panicked, lastFwdPri, removed>>

\* ----------------------------------------------------------------- Session
\* Session.SendMessage: compose, register the locked reply lock and the
\* message, push to the egress queue.  IDs are handed out in order.
SendMessage(reliable) ==
    /\ ~panicked
    /\ Cardinality(messageIDMap) < NMsgs
    /\ LET id == Cardinality(messageIDMap) + 1 IN
        /\ msgs' = [msgs EXCEPT ![id] = [NoMsg EXCEPT !.Reliable = reliable]]
        /\ replyNotifyMap' = [replyNotifyMap EXCEPT ![id] = "locked"]
        /\ messageIDMap' = messageIDMap \cup {id}
        /\ egressQueue' = Append(egressQueue, id)
    /\ UNCHANGED <<rxVars, now, waiting, unlocked, failedIDs, tqVars, sendVars,
                   ackVars, panicked, lastFwdPri, removed>>

\* Session.SendMessage returning an error.  tooLong: composeMessage rejects
\* the size before an ID is drawn and before any map is written.  Otherwise
\* egressQueue.Push fails, after the reply lock and the message were registered
\* under mapLock.
SendMessageErr(reliable, tooLong) ==
    /\ ~panicked
    /\ Cardinality(messageIDMap) < NMsgs
    /\ IF tooLong
       THEN /\ 0 \notin failedIDs
            /\ failedIDs' = failedIDs \cup {0}
            /\ UNCHANGED <<msgs, replyNotifyMap, messageIDMap>>
       ELSE LET id == Cardinality(messageIDMap) + 1 IN
            /\ msgs' = [msgs EXCEPT ![id] = [NoMsg EXCEPT !.Reliable = reliable]]
            /\ replyNotifyMap' = [replyNotifyMap EXCEPT ![id] = "locked"]
            /\ messageIDMap' = messageIDMap \cup {id}
            /\ failedIDs' = failedIDs \cup {id}
    /\ UNCHANGED <<rxVars, now, waiting, unlocked, egressQueue, tqVars, sendVars,
                   ackVars, panicked, lastFwdPri, removed>>

\* Session.WaitForReply(id): replyLock.Lock() returns at once on a free lock
\* and blocks on a held one.
WaitForReply(id) ==
    /\ ~panicked
    /\ id \in messageIDMap
    /\ id \notin waiting
    /\ IF replyNotifyMap[id] = "locked"
       THEN /\ waiting' = waiting \cup {id}
            /\ UNCHANGED replyNotifyMap
       ELSE /\ replyNotifyMap' = [replyNotifyMap EXCEPT ![id] = "locked"]
            /\ UNCHANGED waiting
    /\ UNCHANGED <<rxVars, now, msgs, messageIDMap, unlocked, failedIDs,
                   egressQueue, tqVars, sendVars, ackVars, panicked, lastFwdPri,
                   removed>>

\* The release of a message's reply lock: replyLock.Unlock(), once per
\* message.  A caller blocked in replyLock.Lock() takes the lock over and
\* returns from WaitForReply with the lock still held; with no caller blocked
\* the lock becomes free.
ReplyUnlock(id) ==
    /\ ~panicked
    /\ id \in messageIDMap
    /\ id \notin unlocked
    /\ replyNotifyMap[id] = "locked"
    /\ unlocked' = unlocked \cup {id}
    /\ IF id \in waiting
       THEN /\ waiting' = waiting \ {id}
            /\ UNCHANGED replyNotifyMap
       ELSE /\ replyNotifyMap' = [replyNotifyMap EXCEPT ![id] = "free"]
            /\ UNCHANGED waiting
    /\ UNCHANGED <<rxVars, now, msgs, messageIDMap, failedIDs, egressQueue, tqVars,
                   sendVars, ackVars, panicked, lastFwdPri, removed>>

\* ShouldAbandon with the budget test off by one
ShouldAbandon_OffByOne(r) ==
    r.Transmissions > 0 /\ r.Transmissions > maxTransmissions

\* doSend's test before transmitting
ShouldAbandon(r) ==
    r.Transmissions > 0 /\ r.Transmissions >= maxTransmissions

\* Session.AddSURBKeys(surbid, manifest): the presence test reads the
\* manifest's SURBID, the insertion is under surbid.
AddSURBKeys(keyMap, surbid, manifestSurbID) ==
    IF manifestSurbID \in keyMap THEN keyMap ELSE keyMap \cup {surbid}

\* The SURB keys SendCiphertext returned are filed under the SURB identifier.
RegisterSURBKeys(surbid) ==
    /\ surbKeyMap' = AddSURBKeys(surbKeyMap, surbid, surbid)
    /\ storageKeys' = storageKeys \cup {surbid}

\* doSend pushing every message it transmitted
ShouldPush_Always(r) == TRUE

\* doSend's test before tq.Push
ShouldPush(r) == r.Reliable

\* doSend(m) once SendCiphertext has returned (key, eta): Key, SentAt,
\* ReplyETA, Transmissions++, tq.Push for a reliable message, and
\* surbIDMap[surbID] = msg under mapLock.
DoSendOK(m, eta) ==
    LET r == [msgs[m] EXCEPT !.SentAt = now, !.ReplyETA = eta,
                             !.Transmissions = @ + 1]
    IN /\ msgs' = [msgs EXCEPT ![m] = r]
       /\ IF ShouldPush(r)
          THEN TQPush(m, r)
          ELSE UNCHANGED <<priq, relay, removed>>
       /\ surbIDMap' = [s \in DOMAIN surbIDMap \cup {nextSurb} |->
                          IF s = nextSurb THEN m ELSE surbIDMap[s]]
       /\ RegisterSURBKeys(nextSurb)
       /\ nextSurb' = nextSurb + 1
       /\ nsent' = [nsent EXCEPT ![m] = @ + 1]

\* Session.sendNext: Peek the egress queue, doSend, Pop on success.
\* A message past its budget is dropped: doSend returns nil and sendNext pops.
\* When SendCiphertext fails the error is returned and nothing is popped.
SendNext ==
    /\ ~panicked
    /\ egressQueue # <<>>
    /\ LET m == Head(egressQueue) IN
        IF ShouldAbandon(msgs[m])
        THEN /\ abandoned' = abandoned \cup {m}
             /\ egressQueue' = Tail(egressQueue)
             /\ lastErr' = FALSE
             /\ UNCHANGED <<msgs, priq, relay, removed, surbIDMap, surbKeyMap,
                            storageKeys, nextSurb, nsent>>
        ELSE \E ok \in BOOLEAN, eta \in ETAs :
               IF ok
               THEN /\ DoSendOK(m, eta)
                    /\ egressQueue' = Tail(egressQueue)
                    /\ lastErr' = FALSE
                    /\ UNCHANGED abandoned
               ELSE /\ lastErr' = TRUE
                    /\ UNCHANGED <<msgs, priq, relay, removed, surbIDMap,
                                   surbKeyMap, storageKeys, nextSurb, nsent,
                                   egressQueue, abandoned>>
    /\ UNCHANGED <<rxVars, now, mapVars, wpc, timer, halted, acked, nacks, consumed, sendpc,
                   panicked, lastFwdPri>>

\* Session.sendLoopDecoy: a fresh Message with ID, Recipient, Provider and
\* Payload only (Reliable is false, Transmissions is 0) handed to doSend
\* directly; it never enters the egress queue or messageIDMap.  When
\* GetService or SendCiphertext fails the error is returned and nothing changes.
SendLoopDecoy ==
    /\ ~panicked
    /\ \E d \in Decoys :
        /\ nsent[d] = 0
        /\ \A e \in Decoys : e < d => nsent[e] # 0
        /\ \E eta \in ETAs : DoSendOK(d, eta)
    /\ UNCHANGED <<rxVars, now, mapVars, egressQueue, wpc, timer, halted,
                   abandoned, lastErr, sendpc, acked, nacks, consumed,
                   panicked, lastFwdPri>>

\* ------------------------------------------------- sendNext, step by step
\* sendNext and doSend hold no lock from Peek to Pop: other goroutines run
\* between SendCiphertext's return, the Push with the map write, and the Pop.
SendIdle == [pc |-> "idle", m |-> 0, eta |-> 0, surb |-> 0]

\* Peek and doSend up to the return of SendCiphertext
SendBegin ==
    /\ ~panicked
    /\ sendpc.pc = "idle"
    /\ egressQueue # <<>>
    /\ LET m == Head(egressQueue) IN
        IF ShouldAbandon(msgs[m])
        THEN /\ abandoned' = abandoned \cup {m}
             /\ egressQueue' = Tail(egressQueue)
             /\ lastErr' = FALSE
             /\ UNCHANGED <<surbKeyMap, storageKeys, nextSurb, nsent, sendpc>>
        ELSE \E ok \in BOOLEAN, eta \in ETAs :
               IF ok
               THEN /\ sendpc' = [pc |-> "sent", m |-> m, eta |-> eta,
                                  surb |-> nextSurb]
                    /\ RegisterSURBKeys(nextSurb)
                    /\ nextSurb' = nextSurb + 1
                    /\ nsent' = [nsent EXCEPT ![m] = @ + 1]
                    /\ UNCHANGED <<egressQueue, abandoned, lastErr>>
               ELSE /\ lastErr' = TRUE
                    /\ UNCHANGED <<surbKeyMap, storageKeys, nextSurb, nsent,
                                   egressQueue, abandoned, sendpc>>
    /\ UNCHANGED <<rxVars, now, msgs, mapVars, tqVars, surbIDMap, acked, nacks,
                   consumed, panicked, lastFwdPri, removed>>

\* the rest of doSend: Key, SentAt, ReplyETA, Transmissions++, tq.Push for a
\* reliable message, surbIDMap[surbID] = msg
SendRecord ==
    /\ ~panicked
    /\ sendpc.pc = "sent"
    /\ LET m == sendpc.m
           r == [msgs[m] EXCEPT !.SentAt = now, !.ReplyETA = sendpc.eta,
                                !.Transmissions = @ + 1]
       IN /\ msgs' = [msgs EXCEPT ![m] = r]
          /\ IF ShouldPush(r)
             THEN TQPush(m, r)
             ELSE UNCHANGED <<priq, relay, removed>>
          /\ surbIDMap' = [x \in DOMAIN surbIDMap \cup {sendpc.surb} |->
                             IF x = sendpc.surb THEN m ELSE surbIDMap[x]]
    /\ sendpc' = [sendpc EXCEPT !.pc = "pop"]
    /\ UNCHANGED <<rxVars, now, mapVars, egressQueue, wpc, timer, halted, nextSurb,
                   nsent, abandoned, lastErr, ackVars, panicked, lastFwdPri>>

\* back in sendNext: egressQueue.Pop()
SendPop ==
    /\ ~panicked
    /\ sendpc.pc = "pop"
    /\ egressQueue' = Tail(egressQueue)
    /\ lastErr' = FALSE
    /\ sendpc' = SendIdle
    /\ UNCHANGED <<rxVars, now, msgs, mapVars, tqVars, nextSurb, surbIDMap, nsent,
                   abandoned, ackVars, panicked, lastFwdPri, removed>>

\* the message SURB x was transmitted for (0: none): the one surbIDMap
\* records, or the one doSend is about to record
SurbOwner(x) ==
    IF x \in DOMAIN surbIDMap THEN surbIDMap[x]
    ELSE IF sendpc.pc = "sent" /\ sendpc.surb = x THEN sendpc.m
    ELSE 0

\* ARQScheduler.CancelRetransmission(surbid): the message the SURB was
\* recorded for is taken out of the delay queue.
CancelRetransmission(surbid) ==
    IF surbid \in DOMAIN surbIDMap /\ msgs[surbIDMap[surbid]].Reliable
    THEN TQRemove(surbIDMap[surbid])
    ELSE UNCHANGED <<priq, relay, removed, panicked>>

\* onACK taking any payload for an ACK
AcceptedAsAck_Any(valid) == TRUE

\* onACK's test of the payload: DecryptSURBPayload succeeds and the plaintext
\* is all zeros (valid), else return
AcceptedAsAck(valid) == valid

\* Session.onACK after the lookup found the key: delete it, RemoveSURBKey,
\* decrypt, test for zeros, CancelRetransmission.
\* storeErr: Storage.RemoveSURBKey fails; valid: the payload decrypts to zeros.
AckConsume(surbid, storeErr, valid) ==
    /\ surbKeyMap' = surbKeyMap \ {surbid}
    /\ consumed' = [consumed EXCEPT ![surbid] = @ + 1]
    /\ IF storeErr
       THEN UNCHANGED <<storageKeys, acked, priq, relay, removed, panicked>>
       ELSE /\ storageKeys' = storageKeys \ {surbid}
            /\ IF AcceptedAsAck(valid)
               THEN /\ CancelRetransmission(surbid)
                    /\ acked' = IF SurbOwner(surbid) # 0
                                THEN acked \cup {SurbOwner(surbid)}
                                ELSE acked
               ELSE UNCHANGED <<acked, priq, relay, removed, panicked>>

\* onACK finding every surbID
KeyPresent_Always(keyMap, surbid) == TRUE

\* surbKeys, ok := s.surbKeyMap[*surbid]
KeyPresent(keyMap, surbid) == surbid \in keyMap

\* Session.onACK(surbid, message), run without interruption; limit bounds the
\* ACKs the transport delivers.
OnACKUpTo(surbid, storeErr, valid, limit) ==
    /\ ~panicked
    /\ surbid < nextSurb
    /\ nacks < limit
    /\ nacks' = nacks + 1
    /\ IF ~KeyPresent(surbKeyMap, surbid)
       THEN UNCHANGED <<surbKeyMap, storageKeys, acked, consumed, priq, relay,
                        removed, panicked>>
       ELSE AckConsume(surbid, storeErr, valid)
    /\ UNCHANGED <<rxVars, now, msgs, mapVars, egressQueue, wpc, timer, halted,
                   sendVars, lastFwdPri>>

OnACK(surbid, storeErr, valid) == OnACKUpTo(surbid, storeErr, valid, MaxAcks)

\* ---------------------------------------------------- onACK, step by step
\* onACK holds no lock: its lookup and its delete are separate steps of the
\* calling goroutine.
AckCallers == 1..NAckCallers

\* a caller of Session.AddSURBKeys files the keys of a fresh SURB
AddSURBKeysCall ==
    /\ ~panicked
    /\ nextSurb <= MaxKeys
    /\ RegisterSURBKeys(nextSurb)
    /\ nextSurb' = nextSurb + 1
    /\ UNCHANGED <<rxVars, now, msgs, mapVars, egressQueue, tqVars, surbIDMap,
                   nsent, abandoned, lastErr, sendpc, acked, nacks, consumed, panicked,
                   lastFwdPri, removed>>

\* surbKeys, ok := s.surbKeyMap[*surbid]; return if !ok
AckLookup(t, surbid) ==
    /\ ~panicked
    /\ ackpc[t].pc = "idle"
    /\ surbid < nextSurb
    /\ ackpc' = [ackpc EXCEPT ![t] =
                   IF KeyPresent(surbKeyMap, surbid)
                   THEN [pc |-> "found", surbid |-> surbid]
                   ELSE [pc |-> "idle", surbid |-> surbid]]
    /\ UNCHANGED <<ingress, received, ndeliv, now, msgs, mapVars, egressQueue,
                   tqVars, sendVars, ackVars, panicked, lastFwdPri, removed>>

\* delete(s.surbKeyMap, *surbid) and the rest of onACK
AckFinish(t, storeErr, valid) ==
    /\ ~panicked
    /\ ackpc[t].pc = "found"
    /\ AckConsume(ackpc[t].surbid, storeErr, valid)
    /\ ackpc' = [ackpc EXCEPT ![t].pc = "idle"]
    /\ UNCHANGED <<ingress, received, ndeliv, now, msgs, mapVars, egressQueue,
                   wpc, timer, halted, sendVars, nacks, lastFwdPri>>

\* ------------------------------------------------------------ reassembly
\* The inbound messages: ID -> TotalBlocks.
TotalBlocksOf == <<3, 2, 1>>
MessageIDs == DOMAIN TotalBlocksOf

\* block.Block as DecryptBlock returns it
BlocksOf(i) ==
    { [MessageID |-> i, TotalBlocks |-> TotalBlocksOf[i], BlockID |-> k,
       Payload |-> <<i, k>>] : k \in 0..(TotalBlocksOf[i] - 1) }

Blocks == UNION { BlocksOf(i) : i \in MessageIDs }

IngressBlockVersion == 0

\* the sender's public key DecryptBlock returns for a message
SenderOf(id) == id

\* IngressBlock.ToBytes: version, sender key, block
ToBytes(ib) == <<IngressBlockVersion, ib.SenderPubKey, ib.Block>>

\* IngressBlock.FromBytes: a version mismatch is not returned
FromBytes(raw) == [Version |-> raw[1], SenderPubKey |-> raw[2], Block |-> raw[3]]

RECURSIVE Concat(_, _, _)
\* the payloads of blocks k..n-1 of ibs, in index order
Concat(ibs, k, n) ==
    IF k >= n THEN <<>>
    ELSE LET i == CHOOSE j \in 1..Len(ibs) : ibs[j].Block.BlockID = k
         IN ibs[i].Block.Payload \o Concat(ibs, k + 1, n)

\* reassemble(ingressBlocks): fails while an index of 0..TotalBlocks-1 is
\* missing, else joins the payloads in index order
ReassembleFails(ibs) ==
    \E k \in 0..(ibs[1].Block.TotalBlocks - 1) :
        \A j \in 1..Len(ibs) : ibs[j].Block.BlockID # k

reassemble(ibs) ==
    IF ReassembleFails(ibs) THEN <<>>
    ELSE Concat(ibs, 0, ibs[1].Block.TotalBlocks)

\* Session.onMessage(ciphertextBlock), for a block that decrypts to rBlock
OnMessage(rBlock) ==
    /\ ~panicked
    /\ ndeliv < MaxDeliveries
    /\ ndeliv' = ndeliv + 1
    /\ IF rBlock.TotalBlocks = 1
       THEN /\ received' = Append(received,
                  [MessageID |-> rBlock.MessageID,
                   SenderPubKey |-> SenderOf(rBlock.MessageID),
                   message |-> rBlock.Payload, err |-> FALSE])
            /\ UNCHANGED ingress
       ELSE LET ingressBlock == [SenderPubKey |-> SenderOf(rBlock.MessageID),
                                 Block |-> rBlock]
                rawBlock == ToBytes(ingressBlock)
                rawBlocks == Append(ingress[rBlock.MessageID], rawBlock)
                ingressBlocks == [i \in 1..Len(rawBlocks) |->
                                    FromBytes(rawBlocks[i])]
                err == ReassembleFails(ingressBlocks)
            IN /\ ingress' = IF err
                             THEN [ingress EXCEPT ![rBlock.MessageID] =
                                     Append(@, rawBlock)]
                             ELSE ingress
               \* no return after the block is stored: the consumer is
               \* notified whether or not reassemble failed
               /\ received' = Append(received,
                     [MessageID |-> rBlock.MessageID,
                      SenderPubKey |-> SenderOf(rBlock.MessageID),
                      message |-> reassemble(ingressBlocks), err |-> err])
    /\ UNCHANGED <<ackpc, now, msgs, mapVars, egressQueue, tqVars, sendVars,
                   ackVars, panicked, lastFwdPri, removed>>

\* ------------------------------------------------------------ specification
Init ==
    /\ now = 0
    /\ msgs = [m \in AllMsgs |-> NoMsg]
    /\ messageIDMap = {}
    /\ replyNotifyMap = [m \in Msgs |-> "none"]
    /\ waiting = {}
    /\ unlocked = {}
    /\ failedIDs = {}
    /\ egressQueue = <<>>
    /\ priq = <<>>
    /\ wpc = "top"
    /\ timer = [armed |-> FALSE, at |-> 0]
    /\ relay = "none"
    /\ halted = FALSE
    /\ nextSurb = 1
    /\ surbIDMap = <<>>
    /\ surbKeyMap = {}
    /\ storageKeys = {}
    /\ panicked = FALSE
    /\ lastFwdPri = 0
    /\ removed = {}
    /\ abandoned = {}
    /\ nsent = [m \in AllMsgs |-> 0]
    /\ lastErr = FALSE
    /\ sendpc = SendIdle
    /\ acked = {}
    /\ nacks = 0
    /\ consumed = [x \in SurbIDs |-> 0]
    /\ ackpc = [t \in AckCallers |-> [pc |-> "idle", surbid |-> 1]]
    /\ ingress = [x \in MessageIDs |-> <<>>]
    /\ received = <<>>
    /\ ndeliv = 0

\* a direct call of TimerQ.Remove for a message of the session
RemoveCall(m) ==
    /\ ~panicked
    /\ m \in messageIDMap
    /\ TQRemove(m)
    /\ UNCHANGED <<rxVars, now, msgs, mapVars, egressQueue, wpc, timer, halted, sendVars,
                   ackVars, lastFwdPri>>

Worker ==
    \/ WorkerTop
    \/ WorkerForward
    \/ WorkerTimer
    \/ WorkerWake
    \/ RelayWait

\* The send pipeline and the delay queue, with no ACK arriving.
Next ==
    \/ Tick(MaxTime)
    \/ \E reliable \in BOOLEAN : SendMessage(reliable)
    \/ SendNext
    \/ \E m \in Msgs : RemoveCall(m)
    \/ Worker

Spec == Init /\ [][Next]_vars

\* The same with callers of WaitForReply.
NextWait ==
    \/ Tick(MaxTime)
    \/ \E reliable \in BOOLEAN : SendMessage(reliable)
    \/ \E id \in Msgs : WaitForReply(id)
    \/ SendNext
    \/ Worker

SpecWait == Init /\ [][NextWait]_vars

\* The pipeline with ACKs arriving.
NextAck ==
    \/ Tick(AckMaxTime)
    \/ \E reliable \in BOOLEAN : SendMessage(reliable)
    \/ \E id \in Msgs : WaitForReply(id)
    \/ SendNext
    \/ \E s \in SurbIDs, e \in BOOLEAN, v \in BOOLEAN : OnACK(s, e, v)
    \/ Worker

SpecAck == Init /\ [][NextAck]_vars

\* Concurrent onACK calls against the SURB key map.
NextAckRace ==
    \/ AddSURBKeysCall
    \/ \E t \in AckCallers, x \in SurbIDs : AckLookup(t, x)
    \/ \E t \in AckCallers, e \in BOOLEAN, v \in BOOLEAN : AckFinish(t, e, v)

SpecAckRace == Init /\ [][NextAckRace]_vars

\* Inbound blocks.
NextRx ==
    \E b \in Blocks : OnMessage(b)

SpecRx == Init /\ [][NextRx]_vars


\* First transmissions with ACKs arriving more than once.  The clock stands
\* still: no timer of the worker fires and nothing is retransmitted.
NextAckDup ==
    \/ \E reliable \in BOOLEAN : SendMessage(reliable)
    \/ \E id \in Msgs : WaitForReply(id)
    \/ SendNext
    \/ \E s \in SurbIDs, e \in BOOLEAN, v \in BOOLEAN :
          OnACKUpTo(s, e, v, MaxDupAcks)
    \/ WorkerTop
    \/ WorkerWake
    \/ RelayWait

SpecAckDup == Init /\ [][NextAckDup]_vars

\* sendNext step by step, with ACKs arriving.
NextSteps ==
    \/ Tick(AckMaxTime)
    \/ \E reliable \in BOOLEAN : SendMessage(reliable)
    \/ SendBegin
    \/ SendRecord
    \/ SendPop
    \/ \E s \in SurbIDs, e \in BOOLEAN, v \in BOOLEAN : OnACK(s, e, v)
    \/ Worker

SpecSteps == Init /\ [][NextSteps]_vars

\* sendNext step by step against Push, Remove and the worker.
NextQueue ==
    \/ Tick(AckMaxTime)
    \/ \E reliable \in BOOLEAN : SendMessage(reliable)
    \/ SendBegin
    \/ SendRecord
    \/ SendPop
    \/ \E m \in Msgs : RemoveCall(m)
    \/ Worker

SpecQueue == Init /\ [][NextQueue]_vars

\* The pipeline with loop decoys sent alongside the messages.
NextDecoy ==
    \/ Tick(AckMaxTime)
    \/ \E reliable \in BOOLEAN : SendMessage(reliable)
    \/ SendNext
    \/ SendLoopDecoy
    \/ Worker

SpecDecoy == Init /\ [][NextDecoy]_vars

\* Callers of WaitForReply, again and again, with the reply locks released.
NextReply ==
    \/ Tick(AckMaxTime)
    \/ \E reliable \in BOOLEAN : SendMessage(reliable)
    \/ \E id \in Msgs : WaitForReply(id)
    \/ \E id \in Msgs : ReplyUnlock(id)
    \/ SendNext
    \/ Worker

SpecReply == Init /\ [][NextReply]_vars

\* The pipeline with SendMessage calls that return an error.
NextSendErr ==
    \/ Tick(AckMaxTime)
    \/ \E reliable \in BOOLEAN : SendMessage(reliable)
    \/ \E reliable \in BOOLEAN, tooLong \in BOOLEAN :
          SendMessageErr(reliable, tooLong)
    \/ SendNext
    \/ Worker

SpecSendErr == Init /\ [][NextSendErr]_vars

\* The pipeline with a downstream queue whose Push may fail.
NextPushFail ==
    \/ Tick(AckMaxTime)
    \/ \E reliable \in BOOLEAN : SendMessage(reliable)
    \/ SendNext
    \/ Worker
    \/ WorkerForwardErr
    \/ WorkerTimerErr

SpecPushFail == Init /\ [][NextPushFail]_vars

\* The delay queue with the halt signal raised at some point.  The worker's
\* select picks among its ready cases at random, so a case that is ready again
\* and again is taken in the end.
NextHalt ==
    \/ Tick(AckMaxTime)
    \/ \E reliable \in BOOLEAN : SendMessage(reliable)
    \/ SendNext
    \/ Worker
    \/ Halt
    \/ WorkerHalt
    \/ RelayHalt

SpecHalt ==
    /\ Init
    /\ [][NextHalt]_vars
    /\ WF_vars(WorkerTop)
    /\ WF_vars(WorkerForward)
    /\ SF_vars(WorkerHalt)

\* ------------------------------------------------------------------ claims
\* the worker's forward() moves message m from the delay queue to nextQ
Forwards(m) ==
    /\ priq # <<>>
    /\ Head(priq).m = m
    /\ priq' = Tail(priq)
    /\ egressQueue' = Append(egressQueue, m)

InPriqOf(q, m) == \E k \in 1..Len(q) : q[k].m = m

\* the SURB identifier of m's latest transmission
IsCurrentSurb(x) ==
    /\ x \in DOMAIN surbIDMap
    /\ \A y \in DOMAIN surbIDMap : surbIDMap[y] = surbIDMap[x] => y <= x

\* nothing is queued for sending or for retransmission
Drained == egressQueue = <<>> /\ priq = <<>>

\* C1: once Remove(m) has returned for a message m that was in the queue
\* (head or not), the worker does not forward m unless m is pushed again.
C1_NoForwardAfterRemove ==
    [][\A m \in Msgs : Forwards(m) => m \notin removed]_vars

\* C2: the messages the worker forwards have non-decreasing deadlines (the
\* expiry() each was enqueued with).
C2_ForwardOrder ==
    [][\A m \in Msgs : Forwards(m) => Head(priq).pri >= lastFwdPri]_vars

\* C3: the worker forwards a message only when the current time has reached
\* the deadline sentAt + replyETA/2 + (transmissions+1)*replyETA it was
\* enqueued under.
C3_ForwardAtDeadline ==
    [][\A m \in Msgs :
          Forwards(m) => now >= expiry(msgs[m])]_vars

\* C4: for every reliable message 0 <= Transmissions <= maxTransmissions, the
\* successful SendCiphertext calls for it number Transmissions, and a message
\* doSend abandoned was transmitted exactly maxTransmissions times.
C4_TransmissionsBounded ==
    \A m \in Msgs :
        msgs[m].Reliable =>
            /\ 0 <= msgs[m].Transmissions
            /\ msgs[m].Transmissions <= maxTransmissions
            /\ nsent[m] = msgs[m].Transmissions
            /\ (m \in abandoned => nsent[m] = maxTransmissions)

\* C4 witness: a reliable message was abandoned after three transmissions.
C4_Witness ==
    \E m \in Msgs :
        msgs[m].Reliable /\ m \in abandoned /\ nsent[m] = maxTransmissions

\* C5: a SURB identifier is consumed at most once: of all onACK calls carrying
\* it, at most one finds it present, deletes it and goes on.
C5_ConsumedAtMostOnce ==
    \A x \in SurbIDs : consumed[x] <= 1

\* C6: when a valid ACK for a reliable message's current SURB is processed
\* while the message waits in the delay queue, before its deadline, the
\* message's entry is gone from the queue, head or not.
C6_AckCancelsEntry ==
    [][\A x \in SurbIDs :
          ( /\ OnACK(x, FALSE, TRUE)
            /\ x \in surbKeyMap
            /\ IsCurrentSurb(x)
            /\ InPriqOf(priq, surbIDMap[x])
            /\ now < expiry(msgs[surbIDMap[x]]) )
          => ~InPriqOf(priq', surbIDMap[x])]_vars

\* C7: once a message has been abandoned and nothing is left to send, no
\* caller of WaitForReply for it is still blocked.
C7_AbandonReleasesWaiter ==
    \A m \in Msgs : (m \in abandoned /\ Drained) => m \notin waiting

\* C8: once a valid ACK has been processed for a message and nothing is left
\* to send or to retransmit, no caller of WaitForReply for it is still blocked:
\* the reply lock was released.
C8_AckReleasesWaiter ==
    \A m \in Msgs :
        (msgs[m].Reliable /\ m \in acked /\ Drained /\ ~panicked)
            => m \notin waiting

\* C9: for a multi-block message the consumer is not notified while a block
\* index is missing, and a notification carries the blocks joined in index
\* order.
C9_NoNotifyWhileMissing ==
    \A i \in 1..Len(received) :
        TotalBlocksOf[received[i].MessageID] > 1 =>
            /\ ~received[i].err
            /\ received[i].message =
                 [k \in 1..(2 * TotalBlocksOf[received[i].MessageID]) |->
                    IF k % 2 = 1 THEN received[i].MessageID ELSE (k \div 2) - 1]

\* C10: whatever fragments are delivered again, a message identifier gets at
\* most one notification carrying the reassembled message.
C10_ReassemblyIdempotent ==
    \A id \in { x \in MessageIDs : TotalBlocksOf[x] > 1 } :
        Cardinality({ i \in 1..Len(received) :
                        received[i].MessageID = id /\ ~received[i].err }) <= 1

\* sendNext returns the error of SendCiphertext for message m
SendFails(m) ==
    /\ egressQueue # <<>>
    /\ Head(egressQueue) = m
    /\ ~lastErr
    /\ lastErr'

InQueue(q, m) == \E k \in 1..Len(q) : q[k] = m

\* C11: when SendCiphertext returns an error for a message, the message does
\* not stay queued for a later send attempt, is not pushed to the delay queue,
\* its Transmissions and surbIDMap are unchanged, and the next sendNext does
\* not transmit it.
C11_SendErrorNotRetried ==
    [][\A m \in Msgs :
          /\ SendFails(m) => /\ ~InQueue(egressQueue', m)
                             /\ priq' = priq
                             /\ msgs'[m] = msgs[m]
                             /\ surbIDMap' = surbIDMap
          /\ (lastErr /\ egressQueue # <<>> /\ Head(egressQueue) = m)
                => nsent'[m] = nsent[m]]_vars

WorkerAsleep ==
    /\ wpc = "select"
    /\ ~timer.armed
    /\ relay = "wait"
    /\ ~halted
    /\ ~panicked

\* C13: no wakeup is lost: while a pushed message is queued, the worker is not
\* left asleep with neither a timer nor a wakeup to come, so the message is
\* forwarded with no further Push.
C13_NoLostWakeup == priq # <<>> => ~WorkerAsleep

\* C14: every (re)transmission replaces the message's SURB identifier: at
\* most one surbID maps to a given message, so the surbID of an earlier
\* attempt no longer leads to it.
C14_OneSurbPerMessage ==
    \A x, y \in DOMAIN surbIDMap : surbIDMap[x] = surbIDMap[y] => x = y

\* C15: once a valid ACK for a message has been processed, the message is not
\* in the delay queue, no surbID maps to it, and it is not transmitted again,
\* wherever sendNext, doSend and the worker stood when the ACK arrived.
C15_AckExcludesRetransmission ==
    /\ [](\A m \in Msgs :
            (m \in acked /\ ~panicked) =>
                /\ ~InPriq(m)
                /\ \A x \in DOMAIN surbIDMap : surbIDMap[x] # m)
    /\ [][\A m \in Msgs : m \in acked => nsent'[m] = nsent[m]]_vars

\* C16: the delay queue never holds two entries for the same message.
C16_OneEntryPerMessage ==
    \A i, j \in 1..Len(priq) : priq[i].m = priq[j].m => i = j

\* C16 witness: a retransmitted message is back in the delay queue while
\* sendNext has not yet popped it from the egress queue.
C16_Witness ==
    \E m \in Msgs :
        InPriq(m) /\ InQueue(egressQueue, m) /\ nsent[m] >= 2 /\ ~panicked

\* C17: an abandoned message is gone from surbIDMap, messageIDMap,
\* replyNotifyMap and the delay queue.
C17_AbandonedRemoved ==
    \A m \in abandoned :
        /\ \A x \in DOMAIN surbIDMap : surbIDMap[x] # m
        /\ m \notin messageIDMap
        /\ replyNotifyMap[m] = "none"
        /\ ~InPriq(m)

\* C18: an ACK whose payload is not all zeros acknowledges nothing: onACK
\* leaves the delay queue, the egress queue, the waiters and their reply locks
\* as they are, so the message stays due for retransmission.
C18_BadPayloadNoAck ==
    [][\A x \in SurbIDs, e \in BOOLEAN :
          OnACK(x, e, FALSE) => /\ priq' = priq
                                /\ egressQueue' = egressQueue
                                /\ waiting' = waiting
                                /\ replyNotifyMap' = replyNotifyMap
                                /\ acked' = acked]_vars

\* C18 witness: onACK consumed the current SURB of a queued reliable message
\* with a waiter, the payload was refused, and the entry is still queued.
C18_Witness ==
    \E x \in DOMAIN surbIDMap :
        /\ IsCurrentSurb(x)
        /\ consumed[x] = 1
        /\ x \notin storageKeys
        /\ msgs[surbIDMap[x]].Reliable
        /\ surbIDMap[x] \notin acked
        /\ surbIDMap[x] \in waiting
        /\ InPriq(surbIDMap[x])

\* C19: an ACK for a surbID the SURB key map does not hold is dropped: onACK
\* consumes nothing and leaves the key map, the storage, the delay queue,
\* the egress queue and the waiters with their reply locks unchanged.
C19_UnknownAckDropped ==
    [][\A x \in SurbIDs, e \in BOOLEAN, v \in BOOLEAN :
          (OnACKUpTo(x, e, v, MaxDupAcks) /\ x \notin surbKeyMap)
              => /\ UNCHANGED <<surbKeyMap, storageKeys, consumed, acked>>
                 /\ UNCHANGED <<priq, egressQueue, relay, panicked>>
                 /\ UNCHANGED <<waiting, replyNotifyMap>>]_vars

\* C19 witness: of two ACKs delivered one was a duplicate and was dropped,
\* with a message queued for retransmission and a caller waiting.
C19_Witness ==
    /\ nacks = 2
    /\ Cardinality({x \in SurbIDs : consumed[x] = 1}) = 1
    /\ \A x \in SurbIDs : consumed[x] <= 1
    /\ priq # <<>>
    /\ waiting # {}
    /\ ~panicked

\* C20: only a message whose Reliable flag is set is ever in the delay queue;
\* a message sent with reliable=false and a loop decoy are transmitted at most
\* once, are in no delay-queue entry and are never forwarded for another send.
C20_OnlyReliableQueued ==
    /\ \A i \in 1..Len(priq) : msgs[priq[i].m].Reliable
    /\ \A m \in AllMsgs :
        ~msgs[m].Reliable =>
            /\ nsent[m] <= 1
            /\ nsent[m] = 1 => ~InQueue(egressQueue, m)

\* an unreliable message and a decoy were transmitted, their reply time is
\* over, and a reliable message went round the delay queue meanwhile
C20_Witness ==
    /\ \E m \in Msgs :
        /\ m \in messageIDMap /\ ~msgs[m].Reliable /\ nsent[m] = 1
        /\ now > expiry(msgs[m])
    /\ \E d \in Decoys : nsent[d] = 1 /\ now > expiry(msgs[d])
    /\ \E m \in Msgs : msgs[m].Reliable /\ nsent[m] >= 2 /\ InPriq(m)
    /\ ~panicked
\* a forward() of the worker whose nextQ.Push failed: the head entry left the
\* delay queue and nothing reached the downstream queue
ForwardFails ==
    /\ wpc \in {"fwd", "select"}
    /\ priq # <<>>
    /\ priq' = Tail(priq)
    /\ egressQueue' = egressQueue

\* C21: when the downstream queue's Push fails during a forward, the worker
\* keeps running: the process has not panicked, so the entries that remain and
\* those pushed later can still be forwarded.
C21_PushFailureSurvived == [][ForwardFails => ~panicked']_vars
\* C22: once a message's reply lock has been released, no caller of
\* WaitForReply for that message is blocked, a later caller included.
C22_ReleasedLockBlocksNobody == \A m \in unlocked : m \notin waiting
\* C23: an ACK for a known surbID with an all-zero payload cancels the
\* retransmission also when Storage.RemoveSURBKey fails: when the SURB is the
\* current one of the message at the head of the delay queue, the message's
\* entry is gone after onACK consumed the in-memory key.
C23_ValidAckAlwaysCancels ==
    [][\A x \in SurbIDs :
          ( /\ OnACK(x, TRUE, TRUE)
            /\ x \in surbKeyMap
            /\ IsCurrentSurb(x)
            /\ priq # <<>>
            /\ Head(priq).m = surbIDMap[x] )
          => (x \notin surbKeyMap' => ~InPriqOf(priq', surbIDMap[x]))]_vars
\* C24: after SendMessage returned an error, messageIDMap and replyNotifyMap
\* hold no entry for the failed message's ID.
C24_FailedSendLeavesNoEntry ==
    \A id \in failedIDs \cap Msgs :
        id \notin messageIDMap /\ replyNotifyMap[id] = "none"
====
